---- MODULE Spec2Model ----
(***************************************************************************)
(* The connection manager of pm2-io-apm-go (services.Transporter): the     *)
(* goroutines that share one websocket handle, the mutex mu and the flags  *)
(* isConnected, isHandling, isConnecting and isClosed.  The goroutines are *)
(* interleaved freely, as the Go scheduler may do.  An action is one       *)
(* access to the shared state by one goroutine, together with the purely   *)
(* local statements around it.                                             *)
(***************************************************************************)
EXTENDS Integers, Sequences, FiniteSets, TLC

\* ---- bounds of the model ------------------------------------------------
MaxConns == 3          \* stream handles the dialer may open in one run
MaxDialFails == 1      \* handshakes that may be rejected in a row
MaxResolveFails == 1   \* resolver calls that may fail in a row
MaxTicks == 1          \* ticks of the endpoint refresh ticker in one run
MaxFrames == 1         \* inbound frames delivered to the dispatcher
MaxSends == 1          \* Send calls made by host goroutines
NSenders == 1          \* host goroutines that call Send
NLoops == 2            \* goroutine slots per kind of background loop

\* ---- values --------------------------------------------------------------
Nil == 0                               \* a nil pointer (ws, wsNode, srv)
Addrs == {1, 2}                        \* endpoint addresses the resolver knows
Handles == 1..MaxConns                 \* *websocket.Conn values, in dial order
ActionNames == {"Test", "Tric"}        \* action names a collector may request
Free == <<"nobody", 0>>                \* the value of mu when it is unlocked

Main == <<"main", 1>>
Retriers == {<<"rt", i>> : i \in 1..2}
Dispatchers == {<<"mh", i>> : i \in 1..NLoops}
Heartbeats == {<<"hb", i>> : i \in 1..NLoops}
Refreshers == {<<"rf", i>> : i \in 1..NLoops}
Senders == {<<"s", i>> : i \in 1..NSenders}
Tasks == {Main} \cup Retriers \cup Dispatchers \cup Heartbeats
            \cup Refreshers \cup Senders

VARIABLES
  pc,              \* position of every goroutine ("idle": not running)
  ret,             \* where a goroutine continues when CloseAndReconnect returns
  mu,              \* Transporter.mu: Free or the goroutine that holds it
  isConnected, isHandling, isConnecting, isClosed,
  ws,              \* Transporter.ws: Nil or a handle
  wsNode,          \* Transporter.wsNode: Nil or an address
  heartbeatTicker, \* TRUE once Transporter.heartbeatTicker is set
  serverTicker,    \* TRUE once Transporter.serverTicker is set
  c,               \* Connect's local c: the handle the dial returned
  rd,              \* the handle a dispatcher's ReadMessage is blocked on
  todo,            \* the frames a goroutine still has to pass to SendJson
  hstate,          \* every handle: "unopened", "open", "broken", "peer", "closed"
  haddr,           \* the address every handle was dialled to
  wire,            \* the text frames written to streams, in order
  fault,           \* "none", or the panic that ended the process
  lim,             \* the events this run may see (fixed by Init)
  dialFails, resolveFails,      \* failures in a row so far
  ticks, sends,                 \* events so far
  inbox,                        \* the inbound frames read so far, in order
  lost                          \* the frames SendJson was given and did not write

vars == <<pc, ret, mu, isConnected, isHandling, isConnecting, isClosed, ws,
          wsNode, heartbeatTicker, serverTicker, c, rd, todo, hstate, haddr,
          wire, fault, lim, dialFails, resolveFails, ticks, sends, inbox, lost>>

flags == <<isConnected, isHandling, isConnecting, isClosed>>
tickers == <<heartbeatTicker, serverTicker>>
locals == <<c, rd, todo>>
net == <<hstate, haddr>>
budgets == <<lim, dialFails, resolveFails, ticks, sends, inbox>>

\* ---- helpers -------------------------------------------------------------
At(t, p) == fault = "none" /\ pc[t] = p

Pool(kind) == {t \in Tasks : t[1] = kind}
HasFree(kind) == \E t \in Pool(kind) : pc[t] = "idle"
FreeSlot(kind) ==
  CHOOSE t \in Pool(kind) :
    /\ pc[t] = "idle"
    /\ \A u \in Pool(kind) : pc[u] = "idle" => t[2] <= u[2]

\* The runs that are explored: every run sees failures and reconnects; a run
\* that may open MaxConns handles sees nothing else, the other runs also see
\* refresh ticks, or inbound frames, or inbound frames and host sends, or
\* host sends and rejected handshakes.  One more run sees the resolver fail
\* once more often in a row, so that a retry goroutine has to schedule the
\* next one, and then a single connection; and one sees a single connection
\* with refresh ticks and inbound frames.
Quiet ==
  [conns |-> MaxConns, dialFails |-> MaxDialFails,
   resolveFails |-> MaxResolveFails, ticks |-> 0, frames |-> 0, sends |-> 0]

\* The runs in which goroutines contend for mu while a reconnect may meet
\* rejected handshakes, and the short runs needed to see every operation.
LockScenarios ==
  { [Quiet EXCEPT !.conns = 1, !.dialFails = 0, !.resolveFails = 0,
                  !.ticks = MaxTicks, !.frames = MaxFrames],
    [Quiet EXCEPT !.conns = MaxConns - 1, !.resolveFails = 0,
                  !.sends = MaxSends],
    [Quiet EXCEPT !.conns = 1, !.dialFails = 0,
                  !.resolveFails = MaxResolveFails + 1] }

Scenarios ==
  LockScenarios \cup
  { Quiet,
    [Quiet EXCEPT !.conns = MaxConns - 1, !.ticks = MaxTicks],
    [Quiet EXCEPT !.conns = MaxConns - 1, !.frames = MaxFrames],
    [Quiet EXCEPT !.conns = MaxConns - 1, !.dialFails = 0, !.resolveFails = 0,
                  !.frames = MaxFrames, !.sends = MaxSends] }

Opened == {h \in Handles : hstate[h] # "unopened"}
Healthy(h) == hstate[h] = "open"

\* NewTransporter, lines 159-172: every flag false, no handle, no endpoint,
\* no ticker; the host then calls Connect.
Init ==
  /\ pc = [t \in Tasks |-> IF t = Main THEN "c_start" ELSE "idle"]
  /\ ret = [t \in Tasks |-> "idle"]
  /\ mu = Free
  /\ isConnected = FALSE /\ isHandling = FALSE
  /\ isConnecting = FALSE /\ isClosed = FALSE
  /\ ws = Nil /\ wsNode = Nil
  /\ heartbeatTicker = FALSE /\ serverTicker = FALSE
  /\ c = [t \in Tasks |-> Nil]
  /\ rd = [t \in Tasks |-> Nil]
  /\ todo = [t \in Tasks |-> <<>>]
  /\ hstate = [h \in Handles |-> "unopened"]
  /\ haddr = [h \in Handles |-> Nil]
  /\ wire = <<>>
  /\ fault = "none"
  /\ lim \in Scenarios
  /\ dialFails = 0 /\ resolveFails = 0
  /\ ticks = 0 /\ sends = 0 /\ inbox = <<>> /\ lost = {}

\* GetServer, lines 174-202: an address, or nil when the request or the
\* decoding fails.  The first endpoint ever resolved is called 1.
GetServer ==
  (IF wsNode = Nil THEN {1} ELSE Addrs)
    \cup (IF resolveFails < lim.resolveFails THEN {Nil} ELSE {})

\* A goroutine started by `go` gets the first free slot of its kind.  The
\* goroutines of lines 244 and 265 return at once when their ticker is
\* already set (lines 245-247, 266-268), and no ticker is ever reset: such
\* a goroutine has no effect and is given no slot.
Spawned(kinds) ==
  [t \in {FreeSlot(k) : k \in kinds} |->
     CASE t[1] = "mh" -> "mh_read"
       [] t[1] = "hb" -> "hb_start"
       [] t[1] = "rf" -> "rf_start"
       [] t[1] = "rt" -> "rt_sleep"]

Live(kinds) ==
  {k \in kinds : ~((k = "hb" /\ heartbeatTicker) \/ (k = "rf" /\ serverTicker))}

\* Goroutine t starts goroutines of the given kinds and returns to its
\* caller.
StartAndReturn(t, kinds) ==
  /\ \A k \in Live(kinds) : HasFree(k)
  /\ pc' = [u \in Tasks |->
              IF u = t THEN ret[t]
              ELSE IF u \in DOMAIN Spawned(Live(kinds))
                     THEN Spawned(Live(kinds))[u]
                     ELSE pc[u]]
  /\ ret' = [ret EXCEPT ![t] = "idle"]

\* ---- Connect -------------------------------------------------------------
\* Lines 205-214 with the retry made by the caller as well: the goroutine
\* whose resolution failed starts the retry goroutine and then sleeps and
\* calls Connect again itself instead of returning.
ConnectResolveAndStay(t) ==
  /\ At(t, "c_start")
  /\ wsNode = Nil
  /\ \E r \in GetServer :
       /\ wsNode' = r
       /\ IF r = Nil
            THEN /\ HasFree("rt")
                 /\ pc' = [pc EXCEPT ![t] = "rt_sleep",
                                     ![FreeSlot("rt")] = "rt_sleep"]
                 /\ resolveFails' = resolveFails + 1
            ELSE /\ pc' = [pc EXCEPT ![t] = "c_dial"]
                 /\ resolveFails' = 0
       /\ UNCHANGED ret
  /\ UNCHANGED <<lim, mu, flags, ws, tickers, locals, net, wire, lost, fault, dialFails,
                 ticks, sends, inbox>>

\* Connect, lines 205-214: resolve the endpoint when none is cached; when the
\* resolution fails start the retry goroutine and return.
ConnectResolve(t) ==
  /\ At(t, "c_start")
  /\ wsNode = Nil
  /\ \E r \in GetServer :
       /\ wsNode' = r
       /\ IF r = Nil
            THEN /\ StartAndReturn(t, {"rt"})
                 /\ resolveFails' = resolveFails + 1
            ELSE /\ pc' = [pc EXCEPT ![t] = "c_dial"]
                 /\ resolveFails' = 0
                 /\ UNCHANGED ret
  /\ UNCHANGED <<lim, mu, flags, ws, tickers, locals, net, wire, lost, fault, dialFails,
                 ticks, sends, inbox>>

\* The retry goroutine of Connect, lines 209-212: sleep, then Connect again.
RetryConnect(t) ==
  /\ At(t, "rt_sleep")
  /\ pc' = [pc EXCEPT ![t] = "c_start"]
  /\ UNCHANGED <<ret, mu, flags, ws, wsNode, tickers, locals, net, wire, lost,
                 fault, budgets>>

\* Connect is about to dial: the endpoint is cached (line 205) or was just
\* resolved (line 206).
AtDial(t) ==
  \/ At(t, "c_dial")
  \/ At(t, "c_start") /\ wsNode # Nil

\* Connect, lines 223, 230-235: the handshake to *wsNode succeeds and
\* returns a new handle; isConnected is set.
DialOk(t) ==
  /\ AtDial(t)
  /\ Cardinality(Opened) < lim.conns
  /\ LET h == Cardinality(Opened) + 1 IN
       /\ hstate' = [hstate EXCEPT ![h] = "open"]
       /\ haddr' = [haddr EXCEPT ![h] = wsNode]
       /\ c' = [c EXCEPT ![t] = h]
  /\ isConnected' = TRUE
  /\ dialFails' = 0
  /\ pc' = [pc EXCEPT ![t] = "c_clear"]
  /\ UNCHANGED <<lim, ret, mu, isHandling, isConnecting, isClosed, ws, wsNode,
                 tickers, rd, todo, wire, lost, fault, resolveFails, ticks, sends,
                 inbox>>

\* Connect, lines 223-225: the handshake fails and Connect sleeps.
DialFail(t) ==
  /\ AtDial(t)
  /\ dialFails < lim.dialFails
  /\ dialFails' = dialFails + 1
  /\ pc' = [pc EXCEPT ![t] = "c_failed"]
  /\ UNCHANGED <<lim, ret, mu, flags, ws, wsNode, tickers, locals, net, wire, lost,
                 fault, resolveFails, ticks, sends, inbox>>

\* Connect, lines 226-227: after the sleep clear the guard and reconnect.
DialFailClear(t) ==
  /\ At(t, "c_failed")
  /\ isConnecting' = FALSE
  /\ pc' = [pc EXCEPT ![t] = "car_check"]
  /\ UNCHANGED <<ret, mu, isConnected, isHandling, isClosed, ws, wsNode,
                 tickers, locals, net, wire, lost, fault, budgets>>

\* Connect, line 236.
ClearConnecting(t) ==
  /\ At(t, "c_clear")
  /\ isConnecting' = FALSE
  /\ pc' = [pc EXCEPT ![t] = "c_setws"]
  /\ UNCHANGED <<ret, mu, isConnected, isHandling, isClosed, ws, wsNode,
                 tickers, locals, net, wire, lost, fault, budgets>>

\* Connect, line 238.
SetWs(t) ==
  /\ At(t, "c_setws")
  /\ ws' = c[t]
  /\ c' = [c EXCEPT ![t] = Nil]
  /\ pc' = [pc EXCEPT ![t] = "c_handling"]
  /\ UNCHANGED <<ret, mu, flags, wsNode, tickers, rd, todo, net, wire, lost, fault,
                 budgets>>

\* Connect, lines 240, 244-258: when isHandling is set SetHandlers is
\* skipped; the refresh goroutine is started and Connect returns.
CheckHandling(t) ==
  /\ At(t, "c_handling")
  /\ IF isHandling
       THEN StartAndReturn(t, {"rf"})
       ELSE /\ pc' = [pc EXCEPT ![t] = "sh_set"]
            /\ UNCHANGED ret
  /\ UNCHANGED <<mu, flags, ws, wsNode, tickers, locals, net, wire, lost, fault,
                 budgets>>

\* SetHandlers, lines 261-280, and Connect, lines 244-258: set isHandling,
\* start the dispatcher, the heartbeat and the refresh goroutine, return.
SetHandlers(t) ==
  /\ At(t, "sh_set")
  /\ isHandling' = TRUE
  /\ StartAndReturn(t, {"mh", "hb", "rf"})
  /\ UNCHANGED <<mu, isConnected, isConnecting, isClosed, ws, wsNode, tickers,
                 locals, net, wire, lost, fault, budgets>>

\* ---- CloseAndReconnect ---------------------------------------------------
\* (*websocket.Conn).Close: a handle that is closed stays closed.
Close(h) == [hstate EXCEPT ![h] = "closed"]

\* Lines 375-381 with the close (lines 379-381) placed before the guard.
CarCheckCloseFirst(t) ==
  /\ At(t, "car_check")
  /\ IF ~isClosed /\ ws = Nil
       THEN fault' = "nil_ws_close" /\ UNCHANGED <<pc, ret, hstate>>
       ELSE /\ hstate' = IF isClosed THEN hstate ELSE Close(ws)
            /\ pc' = [pc EXCEPT ![t] = IF isConnecting THEN ret[t] ELSE "car_mark"]
            /\ ret' = [ret EXCEPT ![t] = IF isConnecting THEN "idle" ELSE @]
            /\ UNCHANGED fault
  /\ UNCHANGED <<mu, flags, ws, wsNode, tickers, locals, haddr, wire, lost,
                 budgets>>

\* CloseAndReconnect, lines 375-377: the guard.
CarCheck(t) ==
  /\ At(t, "car_check")
  /\ pc' = [pc EXCEPT ![t] = IF isConnecting THEN ret[t] ELSE "car_close"]
  /\ ret' = [ret EXCEPT ![t] = IF isConnecting THEN "idle" ELSE @]
  /\ UNCHANGED <<mu, flags, ws, wsNode, tickers, locals, net, wire, lost, fault,
                 budgets>>

\* CloseAndReconnect, lines 379-381: close the stream unless the peer closed
\* one before; calling Close through a nil ws is a nil dereference.
CarClose(t) ==
  /\ At(t, "car_close")
  /\ IF isClosed
       THEN pc' = [pc EXCEPT ![t] = "car_mark"] /\ UNCHANGED <<hstate, fault>>
       ELSE IF ws = Nil
              THEN fault' = "nil_ws_close" /\ UNCHANGED <<pc, hstate>>
              ELSE /\ hstate' = Close(ws)
                   /\ pc' = [pc EXCEPT ![t] = "car_mark"]
                   /\ UNCHANGED fault
  /\ UNCHANGED <<ret, mu, flags, ws, wsNode, tickers, locals, haddr, wire, lost,
                 budgets>>

\* Lines 382-384 with the cached endpoint dropped as well, so that Connect
\* resolves it again.
CarMarkForget(t) ==
  /\ At(t, "car_mark")
  /\ isConnected' = FALSE
  /\ isConnecting' = TRUE
  /\ wsNode' = Nil
  /\ pc' = [pc EXCEPT ![t] = "c_start"]
  /\ UNCHANGED <<ret, mu, isHandling, isClosed, ws, tickers, locals,
                 net, wire, lost, fault, budgets>>

\* CloseAndReconnect, lines 382-384: mark disconnected, set the guard and
\* call Connect.
CarMark(t) ==
  /\ At(t, "car_mark")
  /\ isConnected' = FALSE
  /\ isConnecting' = TRUE
  /\ pc' = [pc EXCEPT ![t] = "c_start"]
  /\ UNCHANGED <<ret, mu, isHandling, isClosed, ws, wsNode, tickers, locals,
                 net, wire, lost, fault, budgets>>

\* ---- the heartbeat goroutine (SetHandlers, lines 265-280) ----------------
\* Line 266: the goroutine ends at once when a ticker was ever created.
HbStart(t) ==
  /\ At(t, "hb_start")
  /\ pc' = [pc EXCEPT ![t] = IF heartbeatTicker THEN "idle" ELSE "hb_ticker"]
  /\ UNCHANGED <<ret, mu, flags, ws, wsNode, tickers, locals, net, wire, lost,
                 fault, budgets>>

\* Line 269.
HbSetTicker(t) ==
  /\ At(t, "hb_ticker")
  /\ heartbeatTicker' = TRUE
  /\ pc' = [pc EXCEPT ![t] = "hb_wait"]
  /\ UNCHANGED <<ret, mu, flags, ws, wsNode, serverTicker, locals, net, wire, lost,
                 fault, budgets>>

\* Lines 271-273 without line 272: the ping is written without the lock.
HbNoLock(t) ==
  /\ At(t, "hb_wait")
  /\ pc' = [pc EXCEPT ![t] = "hb_write"]
  /\ UNCHANGED <<ret, mu, flags, ws, wsNode, tickers, locals, net, wire, lost,
                 fault, budgets>>

\* Lines 271-272: the ticker fires and the lock is taken.
HbLock(t) ==
  /\ At(t, "hb_wait")
  /\ mu = Free
  /\ mu' = t
  /\ pc' = [pc EXCEPT ![t] = "hb_write"]
  /\ UNCHANGED <<ret, flags, ws, wsNode, tickers, locals, net, wire, lost, fault,
                 budgets>>

\* Lines 273-278: the ping is written to the handle ws holds now and the
\* lock is released; when the write failed (a handle that is broken or
\* closed) CloseAndReconnect is called and the goroutine ends.
HbWrite(t) ==
  /\ At(t, "hb_write")
  /\ IF ws = Nil
       THEN fault' = "nil_ws_write" /\ UNCHANGED <<pc, mu>>
       ELSE /\ pc' = [pc EXCEPT ![t] = IF Healthy(ws) THEN "hb_wait"
                                       ELSE "car_check"]
            /\ mu' = Free
            /\ UNCHANGED fault
  /\ UNCHANGED <<ret, flags, ws, wsNode, tickers, locals, net, wire, lost, budgets>>

\* ---- SendJson (lines 335-352) --------------------------------------------
\* Where the caller of SendJson goes on when SendJson returns: the dispatcher
\* with its next reply or its next read; a host goroutine ends.
AfterSend(t) ==
  IF Tail(todo[t]) # <<>> THEN "sj_lock"
  ELSE IF t \in Dispatchers THEN "mh_read" ELSE "idle"

\* Lines 341-346: take the lock; a message is dropped, and the lock released
\* again, when the manager is not connected.
SjLock(t) ==
  /\ At(t, "sj_lock")
  /\ mu = Free
  /\ IF isConnected
       THEN /\ mu' = t
            /\ pc' = [pc EXCEPT ![t] = "sj_write"]
            /\ UNCHANGED <<todo, lost>>
       ELSE /\ pc' = [pc EXCEPT ![t] = AfterSend(t)]
            /\ todo' = [todo EXCEPT ![t] = Tail(@)]
            /\ lost' = lost \cup {Head(todo[t])}
            /\ UNCHANGED mu
  /\ UNCHANGED <<ret, flags, ws, wsNode, tickers, c, rd, net, wire, fault,
                 budgets>>

\* Lines 347-351 with a failed write answered by sending again: SendJson
\* calls itself, the lock still held.
SjWriteRetry(t) ==
  /\ At(t, "sj_write")
  /\ IF ws = Nil
       THEN /\ fault' = "nil_ws_write"
            /\ UNCHANGED <<pc, mu, todo, wire>>
       ELSE /\ UNCHANGED fault
            /\ IF Healthy(ws)
                 THEN /\ wire' = Append(wire, Head(todo[t]))
                      /\ pc' = [pc EXCEPT ![t] = AfterSend(t)]
                      /\ todo' = [todo EXCEPT ![t] = Tail(@)]
                      /\ mu' = Free
                 ELSE /\ pc' = [pc EXCEPT ![t] = "sj_lock"]
                      /\ UNCHANGED <<mu, todo, wire>>
  /\ UNCHANGED <<ret, lost, flags, ws, wsNode, tickers, c, rd, net, budgets>>

\* Lines 347-351 and 342: write the frame to the handle ws holds now and
\* release the lock; on a write error call CloseAndReconnect first, the lock
\* still held.
SjWrite(t) ==
  /\ At(t, "sj_write")
  /\ IF ws = Nil
       THEN /\ fault' = "nil_ws_write"
            /\ UNCHANGED <<pc, ret, mu, todo, wire, lost>>
       ELSE /\ UNCHANGED fault
            /\ IF Healthy(ws)
                 THEN /\ wire' = Append(wire, Head(todo[t]))
                      /\ pc' = [pc EXCEPT ![t] = AfterSend(t)]
                      /\ todo' = [todo EXCEPT ![t] = Tail(@)]
                      /\ mu' = Free
                      /\ UNCHANGED <<ret, lost>>
                 ELSE /\ pc' = [pc EXCEPT ![t] = "car_check"]
                      /\ ret' = [ret EXCEPT ![t] = "sj_unlock"]
                      /\ lost' = lost \cup {Head(todo[t])}
                      /\ UNCHANGED <<mu, todo, wire>>
  /\ UNCHANGED <<flags, ws, wsNode, tickers, c, rd, net, budgets>>

\* Line 342, the deferred unlock, when CloseAndReconnect has returned.
SjUnlock(t) ==
  /\ At(t, "sj_unlock")
  /\ mu' = Free
  /\ todo' = [todo EXCEPT ![t] = Tail(@)]
  /\ pc' = [pc EXCEPT ![t] = AfterSend(t)]
  /\ UNCHANGED <<ret, flags, ws, wsNode, tickers, c, rd, net, wire, lost,
                 fault, budgets>>

\* The frame a host goroutine sends (a log line, a metric).
HostFrame == [ch |-> "log", name |-> "", req |-> 0]

\* A host goroutine calls Send (lines 354-372), which calls SendJson.
HostSend(t) ==
  /\ t \in Senders
  /\ At(t, "idle")
  /\ sends < lim.sends
  /\ sends' = sends + 1
  /\ todo' = [todo EXCEPT ![t] = <<HostFrame>>]
  /\ pc' = [pc EXCEPT ![t] = "sj_lock"]
  /\ UNCHANGED <<lim, ret, mu, flags, ws, wsNode, tickers, c, rd, net, wire, lost, fault,
                 dialFails, resolveFails, ticks, inbox>>

\* ---- the dispatcher, MessagesHandler (lines 283-333) ---------------------
\* The frames a collector may send, by what the dispatcher does with them.
InFrames ==
  [kind : {"action"}, name : ActionNames]
    \cup [kind : {"pm2_start", "other", "nochannel", "badjson", "badpayload"},
          name : {""}]

\* The replies of lines 304-312 sent in the opposite order.
ActionRepliesSwapped(name, req) ==
  << [ch |-> "axm:reply", name |-> name, req |-> req],
     [ch |-> "trigger:action:success", name |-> name, req |-> req] >>

\* Lines 304-312: the two replies to a trigger:action frame, in send order.
ActionReplies(name, req) ==
  << [ch |-> "trigger:action:success", name |-> name, req |-> req],
     [ch |-> "axm:reply", name |-> name, req |-> req] >>

\* Lines 319-326: the reply to trigger:pm2:action startLogging.
Pm2Replies(req) == << [ch |-> "trigger:pm2:result", name |-> "", req |-> req] >>

\* Lines 292-332: the panic a frame ends the process with, or "none".
FrameFault(f) ==
  CASE f.kind = "badjson" -> "bad_json"
    [] f.kind = "badpayload" -> "bad_payload"
    [] f.kind = "nochannel" -> "bad_channel"
    [] OTHER -> "none"

\* Lines 298-332: the frames the dispatcher sends in answer to frame f.
Replies(f, req) ==
  CASE f.kind = "action" -> ActionReplies(f.name, req)
    [] f.kind = "pm2_start" -> Pm2Replies(req)
    [] OTHER -> <<>>

\* Line 285: ReadMessage is called on the handle ws holds now.
MhRead(t) ==
  /\ At(t, "mh_read")
  /\ IF ws = Nil
       THEN fault' = "nil_ws_read" /\ UNCHANGED <<pc, rd>>
       ELSE /\ rd' = [rd EXCEPT ![t] = ws]
            /\ pc' = [pc EXCEPT ![t] = "mh_block"]
            /\ UNCHANGED fault
  /\ UNCHANGED <<ret, mu, flags, ws, wsNode, tickers, c, todo, net, wire, lost,
                 budgets>>

\* Lines 285-288, 230-233: ReadMessage returns an error on a handle that is
\* broken or closed (on a close frame of the peer the close handler first
\* sets isClosed); the dispatcher clears isHandling and reconnects.
MhReadErr(t) ==
  /\ At(t, "mh_block")
  /\ ~Healthy(rd[t])
  /\ isClosed' = (isClosed \/ hstate[rd[t]] = "peer")
  /\ isHandling' = FALSE
  /\ rd' = [rd EXCEPT ![t] = Nil]
  /\ pc' = [pc EXCEPT ![t] = "car_check"]
  /\ UNCHANGED <<ret, mu, isConnected, isConnecting, ws, wsNode, tickers, c,
                 todo, net, wire, lost, fault, budgets>>

\* Lines 285, 292-332: a frame arrives and is dispatched.
MhFrame(t) ==
  /\ At(t, "mh_block")
  /\ Healthy(rd[t])
  /\ Len(inbox) < lim.frames
  /\ \E f \in InFrames :
       /\ inbox' = Append(inbox, f)
       /\ IF FrameFault(f) # "none"
            THEN fault' = FrameFault(f) /\ UNCHANGED <<pc, rd, todo>>
            ELSE /\ todo' = [todo EXCEPT ![t] = Replies(f, Len(inbox'))]
                 /\ rd' = [rd EXCEPT ![t] = Nil]
                 /\ pc' = [pc EXCEPT ![t] = IF Replies(f, Len(inbox')) = <<>>
                                              THEN "mh_read" ELSE "sj_lock"]
                 /\ UNCHANGED fault
  /\ UNCHANGED <<lim, ret, mu, flags, ws, wsNode, tickers, c, net, wire, lost, dialFails,
                 resolveFails, ticks, sends>>

\* ---- the endpoint refresh goroutine (Connect, lines 244-257) -------------
\* Line 245: the goroutine ends at once when a ticker was ever created.
RfStart(t) ==
  /\ At(t, "rf_start")
  /\ pc' = [pc EXCEPT ![t] = IF serverTicker THEN "idle" ELSE "rf_ticker"]
  /\ UNCHANGED <<ret, mu, flags, ws, wsNode, tickers, locals, net, wire, lost,
                 fault, budgets>>

\* Line 248.
RfSetTicker(t) ==
  /\ At(t, "rf_ticker")
  /\ serverTicker' = TRUE
  /\ pc' = [pc EXCEPT ![t] = "rf_wait"]
  /\ UNCHANGED <<ret, mu, flags, ws, wsNode, heartbeatTicker, locals, net,
                 wire, lost, fault, budgets>>

\* Lines 250-254: the ticker fires and the endpoint is resolved again; *srv
\* is read without a nil check; an endpoint that differs from the cached one
\* is cached and CloseAndReconnect is called.
RfTick(t) ==
  /\ At(t, "rf_wait")
  /\ ticks < lim.ticks
  /\ ticks' = ticks + 1
  /\ \E srv \in GetServer :
       IF srv = Nil
         THEN /\ fault' = "nil_srv"
              /\ UNCHANGED <<pc, ret, wsNode>>
         ELSE /\ UNCHANGED fault
              /\ IF srv # wsNode
                   THEN /\ wsNode' = srv
                        /\ pc' = [pc EXCEPT ![t] = "car_check"]
                        /\ ret' = [ret EXCEPT ![t] = "rf_wait"]
                   ELSE UNCHANGED <<pc, ret, wsNode>>
  /\ UNCHANGED <<lim, mu, flags, ws, tickers, locals, net, wire, lost, dialFails,
                 resolveFails, sends, inbox>>

\* ---- the network ---------------------------------------------------------
\* The live stream breaks: reads and writes on it fail from now on.
Break(h) ==
  /\ fault = "none"
  /\ h = ws /\ hstate[h] = "open"
  /\ Cardinality(Opened) < lim.conns
  /\ hstate' = [hstate EXCEPT ![h] = "broken"]
  /\ UNCHANGED <<pc, ret, mu, flags, ws, wsNode, tickers, locals, haddr, wire, lost,
                 fault, budgets>>

\* The collector closes the live stream with a close frame.
PeerClose(h) ==
  /\ fault = "none"
  /\ h = ws /\ hstate[h] = "open"
  /\ Cardinality(Opened) < lim.conns
  /\ hstate' = [hstate EXCEPT ![h] = "peer"]
  /\ UNCHANGED <<pc, ret, mu, flags, ws, wsNode, tickers, locals, haddr, wire, lost,
                 fault, budgets>>

\* ---- the specification ---------------------------------------------------
Step(t) ==
  \/ ConnectResolve(t) \/ RetryConnect(t) \/ DialOk(t) \/ DialFail(t)
  \/ DialFailClear(t) \/ ClearConnecting(t) \/ SetWs(t)
  \/ CheckHandling(t) \/ SetHandlers(t)
  \/ CarCheck(t) \/ CarClose(t) \/ CarMark(t)
  \/ HbStart(t) \/ HbSetTicker(t) \/ HbLock(t) \/ HbWrite(t)
  \/ SjLock(t) \/ SjWrite(t) \/ SjUnlock(t) \/ HostSend(t)
  \/ MhRead(t) \/ MhReadErr(t) \/ MhFrame(t)
  \/ RfStart(t) \/ RfSetTicker(t) \/ RfTick(t)

Next ==
  \/ \E t \in Tasks : Step(t)
  \/ \E h \in Handles : Break(h) \/ PeerClose(h)

Spec == Init /\ [][Next]_vars

\* Fair scheduling: a goroutine that can take a step eventually takes one
\* (the Go scheduler); timers fire; the network fails only when it chooses to.
FairSpec == Spec /\ \A t \in Tasks : WF_vars(Step(t))

\* NewTransporter, in a run of LockScenarios.
LockInit == Init /\ lim \in LockScenarios

\* The goroutines that take mu.
LockUsers == Heartbeats \cup Dispatchers \cup Senders

\* Fair scheduling of the goroutines that take mu, and a fair mutex, in the
\* runs of LockScenarios: a host goroutine that waits in mu.Lock gets the
\* lock when it is released again and again (sync.Mutex hands the lock to a
\* waiter that has waited long, its starvation mode).
LockFairSpec ==
  /\ LockInit
  /\ [][Next]_vars
  /\ \A t \in LockUsers : WF_vars(Step(t))
  /\ \A t \in Senders : SF_vars(SjLock(t))

\* ---- the claims ----------------------------------------------------------
\* Positions inside CloseAndReconnect after its guard, and inside Connect.
AttemptPcs ==
  {"car_close", "car_mark", "c_start", "c_dial", "c_failed", "c_clear",
   "c_setws", "c_handling", "sh_set"}

\* Goroutine t runs CloseAndReconnect past its guard, or Connect.
InAttempt(t) == pc[t] \in AttemptPcs

\* Goroutine t runs a reconnection attempt: it has passed the guard of
\* CloseAndReconnect and its Connect has not returned.  (The goroutines of
\* the first Connect pass the guard only to end at line 380.)
Reconnecting(t) ==
  /\ InAttempt(t)
  /\ t \in {Main} \cup Retriers => pc[t] \in {"car_close", "car_mark"}

Attempts == {t \in Tasks : Reconnecting(t)}

\* A reconnect has settled: connected, guard clear, nobody reconnecting or
\* about to, and the process runs.
Settled ==
  /\ fault = "none"
  /\ isConnected /\ ~isConnecting
  /\ \A t \in Tasks : ~InAttempt(t) /\ pc[t] \notin {"car_check", "rt_sleep"}

\* Dispatcher t is in its read loop (also while it sends a reply).
MhRunning(t) ==
  /\ t \in Dispatchers
  /\ \/ pc[t] \in {"mh_read", "mh_block", "sj_lock", "sj_write", "sj_unlock"}
     \/ pc[t] \in AttemptPcs \cup {"car_check"} /\ ret[t] = "sj_unlock"

\* Heartbeat goroutine t is in its ticker loop, or about to enter it.
HbRunning(t) ==
  /\ t \in Heartbeats
  /\ pc[t] \in {"hb_start", "hb_ticker", "hb_wait", "hb_write"}

\* C1: at most one reconnection attempt (guard passed, Connect not yet
\* finished) is in flight at any time.
C1_OneAttemptInFlight == Cardinality(Attempts) <= 1

\* C2: never two dispatcher loops at once, and once a reconnect has settled
\* a dispatcher loop is running.
C2_OneDispatcher ==
  /\ Cardinality({t \in Dispatchers : MhRunning(t)}) <= 1
  /\ Settled => \E t \in Dispatchers : MhRunning(t)

\* C3: never two heartbeat loops at once, and once a connect or reconnect
\* has settled a heartbeat loop is running (or about to start its ticker).
C3_OneHeartbeat ==
  /\ Cardinality({t \in Heartbeats : pc[t] \in {"hb_wait", "hb_write"}}) <= 1
  /\ Settled => \E t \in Heartbeats : HbRunning(t)

\* The holder of mu, if any, is inside CloseAndReconnect or Connect.
LockHeldInReconnect ==
  mu # Free /\ pc[mu] \in AttemptPcs \cup {"car_check"}

\* C4: a Send made while the manager is disconnected returns without
\* waiting on another goroutine: a caller that is about to take the lock
\* while isConnected is false never finds the lock held by a goroutine that
\* is reconnecting.
C4_SendNeverWaits ==
  \A t \in Tasks :
    (pc[t] = "sj_lock" /\ ~isConnected) => ~LockHeldInReconnect

\* The frames written for request r, in write order.
FramesOf(r) == SelectSeq(wire, LAMBDA f : f.req = r)

\* The replies to request r that a dispatcher still has to pass to SendJson
\* (or is passing right now).
Pending(r) ==
  {f \in UNION {{todo[t][i] : i \in 1..Len(todo[t])} : t \in Dispatchers} :
     f.req = r}

\* The replies a trigger:action request for `name` asks for, in order.
C5_Expected(name, r) ==
  << [ch |-> "trigger:action:success", name |-> name, req |-> r],
     [ch |-> "axm:reply", name |-> name, req |-> r] >>

ActionRequests == {r \in 1..Len(inbox) : inbox[r].kind = "action"}

C6_TickReconnects ==
  [][\A t \in Refreshers :
       (pc[t] = "car_check" /\ ret[t] = "rf_wait") => pc'[t] # "rf_wait"]_vars

\* C7: a refresh tick whose resolution fails is no fault.
C7_FailedRefreshIsNoChange == fault # "nil_srv"

\* C8: a handshake failure is never fatal, also the first one, when no
\* handle was ever opened.
C8_HandshakeFailureNotFatal == fault # "nil_ws_close"

\* C9: at most one handle is open on the local side (neither closed by
\* CloseAndReconnect nor by the peer).
C9_OneOpenHandle ==
  Cardinality({h \in Handles : hstate[h] \in {"open", "broken"}}) <= 1

\* The connection has failed: a handshake or a resolution failed, or the
\* live stream is broken or closed.
ConnectionFailed ==
  \/ \E t \in Tasks : pc[t] \in {"c_failed", "rt_sleep"}
  \/ ws # Nil /\ ~Healthy(ws)

Reconnected == isConnected /\ ~isConnecting

\* The dialer of the model has no handle left to hand out.
OutOfHandles == Cardinality(Opened) = lim.conns

\* C10: after a failure the manager is eventually connected again.
C10_EventuallyReconnected ==
  ConnectionFailed ~> (Reconnected \/ OutOfHandles)

\* The goroutines that wait for, or run, a retry of Connect (lines 209-212).
RetryTasks ==
  {t \in Tasks : pc[t] = "rt_sleep" \/ (t \in Retriers /\ pc[t] # "idle")}

\* C11: at most one retry task of Connect is pending or running; while no
\* endpoint is resolved exactly one goroutine is resolving or waiting to
\* retry (the retries never stop, and the goroutine that scheduled one has
\* ended), and a failed resolution always finds a goroutine slot for its
\* retry.
C11_OneRetryTask ==
  /\ Cardinality(RetryTasks) <= 1
  /\ (fault = "none" /\ wsNode = Nil) =>
        /\ Cardinality({t \in Tasks : pc[t] \in {"c_start", "rt_sleep"}}) = 1
        /\ \A t \in Tasks : pc[t] = "c_start" => HasFree("rt")

\* C11 happens: a retry goroutine's resolution failed, it has scheduled the
\* next retry and has ended.
C11_Witness ==
  /\ wsNode = Nil /\ resolveFails >= 2
  /\ \E t \in Retriers :
       pc[t] = "rt_sleep" /\ \A u \in Tasks \ {t} : pc[u] = "idle"

\* C12: a CloseAndReconnect that finds isConnecting set returns to its
\* caller at once: the step closes no handle, leaves isConnected,
\* isConnecting, isClosed, isHandling, ws and the cached endpoint as they
\* are, and does not enter Connect.
C12_GuardedCallChangesNothing ==
  [][\A t \in Tasks :
       (pc[t] = "car_check" /\ isConnecting /\ pc'[t] # pc[t]) =>
         /\ pc'[t] = ret[t]
         /\ pc'[t] \notin AttemptPcs
         /\ UNCHANGED <<flags, ws, wsNode, hstate, haddr, mu>>]_vars

\* C12 happens: the refresh goroutine cached a new endpoint and is back at
\* its ticker although nobody has dialled that endpoint: its
\* CloseAndReconnect returned at the guard.
C12_Witness ==
  /\ fault = "none"
  /\ \E t \in Refreshers : pc[t] = "rf_wait" /\ ticks > 0
  /\ wsNode \notin {haddr[h] : h \in Handles}

\* The goroutines inside a write to the stream (lines 273, 347-348).
Writers == {t \in Tasks : pc[t] \in {"hb_write", "sj_write"}}

\* C13: a goroutine that writes to the stream holds mu, so no two goroutines
\* write at the same time; and every text frame that reaches the stream is
\* written by the holder of mu, so the frames are on the stream in the order
\* in which their senders took the lock.
C13_WritesSerialized ==
  /\ [](\A t \in Writers : mu = t)
  /\ [](Cardinality(Writers) <= 1)
  /\ [][wire' # wire =>
          /\ mu \in Writers
          /\ wire' = Append(wire, Head(todo[mu]))
          /\ mu' = Free]_vars

\* C13 happens: a goroutine writes while another one waits for the lock.
C13_Witness ==
  /\ fault = "none"
  /\ \E t \in Heartbeats : pc[t] = "hb_write"
  /\ \E u \in Tasks : pc[u] = "sj_lock"

\* C14: mu is held only around one write: its holder is never inside
\* CloseAndReconnect or Connect (closing, sleeping, dialling).
C14_LockOnlyAroundWrite ==
  mu # Free => pc[mu] \notin AttemptPcs \cup {"car_check"}

\* C15: the resolver is never called by the holder of mu: not by a Connect
\* that runs with the lock held (the endpoint is cached then), and not by
\* the refresh goroutine.
C15_NoResolveUnderLock ==
  /\ \A t \in Tasks : (pc[t] = "c_start" /\ wsNode = Nil) => mu # t
  /\ \A t \in Refreshers : pc[t] = "rf_wait" => mu # t
  /\ (mu # Free /\ pc[mu] \in AttemptPcs) => wsNode # Nil

\* C15 happens: the holder of mu enters Connect.
C15_Witness == fault = "none" /\ mu # Free /\ pc[mu] = "c_start"

\* The refresh goroutines that have passed the check of line 245.
RfRunning ==
  {t \in Refreshers : pc[t] \notin {"idle", "rf_start"}}

\* C16: at most one refresh goroutine ever gets past the check of line 245
\* and runs a ticker.
C16_OneRefreshLoop == Cardinality(RfRunning) <= 1

\* C17: a decoded frame whose channel is not a known one, an absent channel
\* included, is no fault.
C17_UnknownChannelNoFault == fault # "bad_channel"

\* C18: whenever isConnected is set, ws holds the handle of the most recent
\* successful handshake.
C18_ConnectedHasHandle ==
  isConnected => (ws # Nil /\ ws = Cardinality(Opened))

\* C19: once a reconnect has settled the live stream is connected to the
\* cached endpoint.
C19_SettledOnCachedEndpoint ==
  (Settled /\ ws # Nil) => haddr[ws] = wsNode

\* Goroutine t is inside mu.Lock (line 341), in a process that runs.
WaitsForLock(t) == fault = "none" /\ pc[t] = "sj_lock"

====
